---- MODULE Spec2Model ----
(***************************************************************************)
(* A model of the node-to-record mapping layer of kanjidic_parser.         *)
(*                                                                         *)
(* Text is a sequence of one-character strings.  A markup node is a record *)
(*   [tag, pos, text, attrs, kids]                                         *)
(* where pos identifies the node in the document, text is an Option of a   *)
(* text, attrs is a sequence of <<name, value>> pairs and kids is the      *)
(* sequence of child nodes in document order.                              *)
(***************************************************************************)
EXTENDS Integers, Sequences, FiniteSets, TLC

VARIABLES input, result, pc, edits

vars == <<input, result, pc, edits>>

----------------------------------------------------------------------------
(* Bounds of the model *)

MaxLen == 3

MaxEdits == 2

----------------------------------------------------------------------------
(* Option and Result values *)

None == <<>>

Some(v) == <<v>>

IsSome(o) == o /= <<>>

Unwrap(o) == o[1]

Ok(v) == [ok |-> TRUE, val |-> v]

Err(e) == [ok |-> FALSE, err |-> e]

Pending == [ok |-> FALSE, err |-> [kind |-> "Pending"]]

----------------------------------------------------------------------------
(* Texts *)

Digits == {"0", "1", "2", "3", "4", "5", "6", "7", "8", "9"}

Letters == {"A", "P", "X", "a"}

DigitVal == [c \in Digits |->
               CASE c = "0" -> 0 [] c = "1" -> 1 [] c = "2" -> 2 [] c = "3" -> 3
                 [] c = "4" -> 4 [] c = "5" -> 5 [] c = "6" -> 6 [] c = "7" -> 7
                 [] c = "8" -> 8 [] c = "9" -> 9]

DigitChar == [d \in 0..9 |-> CHOOSE c \in Digits : DigitVal[c] = d]

SeqsUpTo(S, n) == UNION {[1..k -> S] : k \in 0..n}

AllDigits(s) == \A i \in 1..Len(s) : s[i] \in Digits

RECURSIVE DecVal(_)
DecVal(s) == IF s = <<>> THEN 0
             ELSE DecVal(SubSeq(s, 1, Len(s) - 1)) * 10 + DigitVal[s[Len(s)]]

U8Max == 255

U16Max == 65535

(* str::parse for an unsigned integer type with the given maximum: an      *)
(* optional leading "+", then one or more decimal digits, no overflow.     *)
ParseUint(s, max) ==
    LET body == IF s /= <<>> /\ s[1] = "+" THEN Tail(s) ELSE s
    IN  IF body = <<>> \/ ~AllDigits(body) THEN None
        ELSE IF DecVal(body) > max THEN None
        ELSE Some(DecVal(body))

----------------------------------------------------------------------------
(* Nodes *)

Node(tag, pos, text, attrs, kids) ==
    [tag |-> tag, pos |-> pos, text |-> text, attrs |-> attrs, kids |-> kids]

Leaf(tag, pos, text, attrs) == Node(tag, pos, text, attrs, <<>>)

----------------------------------------------------------------------------
(* grade.rs *)

Kyouiku(n) == [grade |-> "Kyouiku", n |-> n]

Jouyou == [grade |-> "Jouyou", n |-> 0]

Jinmeiyou == [grade |-> "Jinmeiyou", n |-> 0]

JinmeiyouJouyouVariant == [grade |-> "JinmeiyouJouyouVariant", n |-> 0]

GradeError(k) == [kind |-> "Grade", reason |-> k]

(* A grade decoder whose school-grade range is one too wide. *)
GradeTryFromWide(node) ==
    IF ~IsSome(node.text) THEN Err(GradeError("NoText"))
    ELSE LET parsed == ParseUint(Unwrap(node.text), U8Max)
         IN  IF ~IsSome(parsed) THEN Err(GradeError("Digit"))
             ELSE LET n == Unwrap(parsed)
                  IN  CASE n \in 1..7 -> Ok(Kyouiku(n))
                        [] n = 8 -> Ok(Jouyou)
                        [] n = 9 -> Ok(Jinmeiyou)
                        [] n = 10 -> Ok(JinmeiyouJouyouVariant)
                        [] OTHER -> Err(GradeError("Unrecognized"))

(* A grade decoder that reports text that is not a number as an          *)
(* unrecognized grade.                                                    *)
GradeTryFromOneError(node) ==
    IF ~IsSome(node.text) THEN Err(GradeError("NoText"))
    ELSE LET parsed == ParseUint(Unwrap(node.text), U8Max)
         IN  IF ~IsSome(parsed) THEN Err(GradeError("Unrecognized"))
             ELSE LET n == Unwrap(parsed)
                  IN  CASE n \in 1..6 -> Ok(Kyouiku(n))
                        [] n = 8 -> Ok(Jouyou)
                        [] n = 9 -> Ok(Jinmeiyou)
                        [] n = 10 -> Ok(JinmeiyouJouyouVariant)
                        [] OTHER -> Err(GradeError("Unrecognized"))

GradeTryFrom(node) ==
    IF ~IsSome(node.text) THEN Err(GradeError("NoText"))
    ELSE LET parsed == ParseUint(Unwrap(node.text), U8Max)
         IN  IF ~IsSome(parsed) THEN Err(GradeError("Digit"))
             ELSE LET n == Unwrap(parsed)
                  IN  CASE n \in 1..6 -> Ok(Kyouiku(n))
                        [] n = 8 -> Ok(Jouyou)
                        [] n = 9 -> Ok(Jinmeiyou)
                        [] n = 10 -> Ok(JinmeiyouJouyouVariant)
                        [] OTHER -> Err(GradeError("Unrecognized"))

GradeAlphabet == Digits \cup {"+", "a"}

GradeTexts == SeqsUpTo(GradeAlphabet, MaxLen)

GradeNodes == {Leaf("grade", 1, t, <<>>) : t \in {None} \cup {Some(s) : s \in GradeTexts}}

InitGrade ==
    /\ input \in GradeNodes
    /\ result = Pending
    /\ pc = "start"
    /\ edits = 0

DecodeGrade ==
    /\ pc = "start"
    /\ input.tag = "grade"
    /\ result' = GradeTryFrom(input)
    /\ pc' = "done"
    /\ UNCHANGED <<input, edits>>

NextGrade == DecodeGrade

SpecGrade == InitGrade /\ [][NextGrade]_vars

(* A text is a decimal numeral when it is one or more decimal digits,      *)
(* optionally preceded by a plus sign; NumeralValue is the number it       *)
(* denotes.                                                                *)
Unsigned(s) == IF s /= <<>> /\ s[1] = "+" THEN Tail(s) ELSE s

IsNumeral(s) == Unsigned(s) /= <<>> /\ AllDigits(Unsigned(s))

NumeralValue(s) == DecVal(Unsigned(s))

GradeDecoded == pc = "done" /\ input.tag = "grade" /\ IsSome(input.text)

(* C1: the text of a grade node decodes by its number: 1..6 give the       *)
(* school grade Kyouiku(n) of that number, 8 gives Jouyou, 9 Jinmeiyou,    *)
(* 10 JinmeiyouJouyouVariant; 0, 7, 11 and above and every text that is    *)
(* not a numeral are rejected with an error.                               *)
C1_GradeDecoding ==
    GradeDecoded =>
        LET t == Unwrap(input.text)
            n == NumeralValue(t)
        IN  IF ~IsNumeral(t) THEN ~result.ok
            ELSE /\ n \in 1..6 => result = Ok(Kyouiku(n))
                 /\ n = 8 => result = Ok(Jouyou)
                 /\ n = 9 => result = Ok(Jinmeiyou)
                 /\ n = 10 => result = Ok(JinmeiyouJouyouVariant)
                 /\ (n = 0 \/ n = 7 \/ n >= 11) => ~result.ok

C1_Witness ==
    /\ GradeDecoded
    /\ Unwrap(input.text) = <<"1", "0">>
    /\ result = Ok(JinmeiyouJouyouVariant)

GradeOutcome == pc = "done" /\ input.tag = "grade"

RecognizedGrades == (1..6) \cup {8, 9, 10}

(* C12 as stated: every grade text that is a decimal number outside       *)
(* {1,...,6,8,9,10}, such as 0, 7, 11 or 300, yields the Unrecognized     *)
(* error, text that is not a number yields Digit and a node without text  *)
(* yields NoText.                                                         *)
C12_NumberOutsideUnrecognized ==
    GradeOutcome =>
        IF ~IsSome(input.text) THEN result = Err(GradeError("NoText"))
        ELSE LET t == Unwrap(input.text)
             IN  /\ ~IsNumeral(t) => result = Err(GradeError("Digit"))
                 /\ (IsNumeral(t) /\ NumeralValue(t) \notin RecognizedGrades) =>
                      result = Err(GradeError("Unrecognized"))

(* C12, amended: a grade text that is a decimal number of at most 255     *)
(* outside {1,...,6,8,9,10} yields the Unrecognized error; a number above  *)
(* 255 yields Digit, as text that is not a number does; a node without    *)
(* text yields NoText; the three errors are different values.             *)
C12_GradeErrorKinds ==
    GradeOutcome =>
        IF ~IsSome(input.text) THEN result = Err(GradeError("NoText"))
        ELSE LET t == Unwrap(input.text)
                 n == NumeralValue(t)
             IN  /\ ~IsNumeral(t) => result = Err(GradeError("Digit"))
                 /\ (IsNumeral(t) /\ n > U8Max) => result = Err(GradeError("Digit"))
                 /\ (IsNumeral(t) /\ n <= U8Max /\ n \notin RecognizedGrades) =>
                      /\ result = Err(GradeError("Unrecognized"))
                      /\ result /= Err(GradeError("Digit"))
                      /\ result /= Err(GradeError("NoText"))

C12_Witness ==
    /\ GradeOutcome
    /\ input.text = Some(<<"1", "1">>)
    /\ result = Err(GradeError("Unrecognized"))

----------------------------------------------------------------------------
(* Positional error context and the tree accessor utilities *)

PosError(node) == node.pos

MissingChild(node, tag) == [kind |-> "MissingChild", pos |-> PosError(node), name |-> tag]

MissingAttribute(node, name) == [kind |-> "MissingAttribute", pos |-> PosError(node), name |-> name]

MissingText(node) == [kind |-> "MissingText", pos |-> PosError(node), name |-> ""]

NotANumber(node) == [kind |-> "NotANumber", pos |-> PosError(node), name |-> ""]

Min(S) == CHOOSE x \in S : \A y \in S : x <= y

(* node.attribute(name) *)
AttrOpt(node, name) ==
    LET hits == {i \in 1..Len(node.attrs) : node.attrs[i][1] = name}
    IN  IF hits = {} THEN None ELSE Some(node.attrs[Min(hits)][2])

attr(node, name) ==
    LET value == AttrOpt(node, name)
    IN  IF IsSome(value) THEN Ok(Unwrap(value)) ELSE Err(MissingAttribute(node, name))

text(node) ==
    IF IsSome(node.text) THEN Ok(Unwrap(node.text)) ELSE Err(MissingText(node))

text_uint(node, max) ==
    IF ~text(node).ok THEN text(node)
    ELSE LET parsed == ParseUint(text(node).val, max)
         IN  IF IsSome(parsed) THEN Ok(Unwrap(parsed)) ELSE Err(NotANumber(node))

attr_uint(node, name, max) ==
    LET value == AttrOpt(node, name)
        parsed == ParseUint(Unwrap(value), max)
    IN  IF ~IsSome(value) THEN Ok(None)
        ELSE IF IsSome(parsed) THEN Ok(Some(Unwrap(parsed)))
        ELSE Err(NotANumber(node))

WithTag(node, tag) == SelectSeq(node.kids, LAMBDA k : k.tag = tag)

child(node, tag) ==
    LET hits == {i \in 1..Len(node.kids) : node.kids[i].tag = tag}
    IN  IF hits /= {} THEN Ok(node.kids[Min(hits)]) ELSE Err(MissingChild(node, tag))

(* children(node, tag, cb) is collect over cb applied to WithTag(node,    *)
(* tag) in document order: all the decoded values, or the error of the    *)
(* first child whose decoder fails.                                       *)
collect(decoded) ==
    LET failed == {i \in 1..Len(decoded) : ~decoded[i].ok}
    IN  IF failed = {} THEN Ok([i \in 1..Len(decoded) |-> decoded[i].val])
        ELSE Err(decoded[Min(failed)].err)

----------------------------------------------------------------------------
(* The nom combinators used by the index grammars *)

AsciiAlphabetic == Letters

(* Length of the longest prefix of s whose characters are all in S *)
RunLen(s, S) ==
    IF \A i \in 1..Len(s) : s[i] \in S THEN Len(s)
    ELSE Min({i \in 1..Len(s) : s[i] \notin S}) - 1

Parsed(rest, val) == Ok([rest |-> rest, val |-> val])

NomError(code) == [kind |-> "Nom", code |-> code]

(* take_uint: the leading run of decimal digits, as a number of the width *)
take_uint(s, max) ==
    LET n == RunLen(s, Digits)
    IN  IF n = 0 THEN Err(NomError("Digit"))
        ELSE IF DecVal(SubSeq(s, 1, n)) > max THEN Err(NomError("MapRes"))
        ELSE Parsed(SubSeq(s, n + 1, Len(s)), DecVal(SubSeq(s, 1, n)))

(* take_while(is_ascii_alphabetic): never fails, may take nothing *)
take_while_alphabetic(s) ==
    LET n == RunLen(s, AsciiAlphabetic)
    IN  Parsed(SubSeq(s, n + 1, Len(s)), SubSeq(s, 1, n))

----------------------------------------------------------------------------
(* moro.rs *)

Moro(volume, page, index, suffix) ==
    [volume |-> volume, page |-> page, index |-> index, suffix |-> suffix]

MoroShared(e) == [kind |-> "Shared", inner |-> e]

MoroFormat(pos, reason) == [kind |-> "Format", pos |-> pos, reason |-> reason]

(* An index_suffix that takes an unknown run of letters for no suffix. *)
index_suffix_lenient(s) ==
    LET run == take_while_alphabetic(s).val
    IN  CASE run.val = <<"X">> -> Parsed(run.rest, "X")
          [] run.val = <<"P">> -> Parsed(run.rest, "P")
          [] run.val = <<"P", "X">> -> Parsed(run.rest, "PX")
          [] OTHER -> Parsed(run.rest, "None")

index_suffix(s) ==
    LET run == take_while_alphabetic(s).val
    IN  CASE run.val = <<"X">> -> Parsed(run.rest, "X")
          [] run.val = <<"P">> -> Parsed(run.rest, "P")
          [] run.val = <<"P", "X">> -> Parsed(run.rest, "PX")
          [] run.val = <<>> -> Parsed(run.rest, "None")
          [] OTHER -> Err(NomError("MapRes"))

(* A parse_index that requires the grammar to consume the whole text. *)
parse_index_complete(s) ==
    LET number == take_uint(s, U16Max)
    IN  IF ~number.ok THEN number
        ELSE LET sfx == index_suffix(number.val.rest)
             IN  IF ~sfx.ok THEN sfx
                 ELSE IF sfx.val.rest /= <<>> THEN Err(NomError("Eof"))
                 ELSE Parsed(sfx.val.rest, <<number.val.val, sfx.val.val>>)

parse_index(s) ==
    LET number == take_uint(s, U16Max)
    IN  IF ~number.ok THEN number
        ELSE LET sfx == index_suffix(number.val.rest)
             IN  IF ~sfx.ok THEN sfx
                 ELSE Parsed(sfx.val.rest, <<number.val.val, sfx.val.val>>)

(* A moro::from that takes a malformed m_vol or m_page for an absent one. *)
moro_from_defaulting(node) ==
    IF ~text(node).ok THEN Err(MoroShared(text(node).err))
    ELSE LET parsed == parse_index(text(node).val)
             volume == attr_uint(node, "m_vol", U8Max)
             page == attr_uint(node, "m_page", U16Max)
         IN  IF ~parsed.ok THEN Err(MoroFormat(PosError(node), parsed.err))
             ELSE Ok(Moro(IF volume.ok THEN volume.val ELSE None,
                          IF page.ok THEN page.val ELSE None,
                          parsed.val.val[1], parsed.val.val[2]))

moro_from(node) ==
    IF ~text(node).ok THEN Err(MoroShared(text(node).err))
    ELSE LET parsed == parse_index(text(node).val)
             volume == attr_uint(node, "m_vol", U8Max)
             page == attr_uint(node, "m_page", U16Max)
         IN  IF ~parsed.ok THEN Err(MoroFormat(PosError(node), parsed.err))
             ELSE IF ~volume.ok THEN Err(MoroShared(volume.err))
             ELSE IF ~page.ok THEN Err(MoroShared(page.err))
             ELSE Ok(Moro(volume.val, page.val, parsed.val.val[1], parsed.val.val[2]))

----------------------------------------------------------------------------
(* oneill.rs *)

Oneill(number, suffix) == [number |-> number, suffix |-> suffix]

OneillFormat(reason) == [kind |-> "Format", reason |-> reason]

UnknownSuffix == [kind |-> "UnknownSuffix", reason |-> None]

(* An O'Neill suffix decoder that loses the suffix it recognised. *)
suffix_dropped(s) ==
    LET run == take_while_alphabetic(s).val
    IN  CASE run.val = <<"A">> -> Parsed(run.rest, None)
          [] run.val = <<>> -> Parsed(run.rest, None)
          [] OTHER -> Err(NomError("MapRes"))

suffix(s) ==
    LET run == take_while_alphabetic(s).val
    IN  CASE run.val = <<"A">> -> Parsed(run.rest, Some("A"))
          [] run.val = <<>> -> Parsed(run.rest, None)
          [] OTHER -> Err(NomError("MapRes"))

parts(s) ==
    LET number == take_uint(s, U16Max)
    IN  IF ~number.ok THEN number
        ELSE LET sfx == suffix(number.val.rest)
             IN  IF ~sfx.ok THEN sfx
                 ELSE Parsed(sfx.val.rest, <<number.val.val, sfx.val.val>>)

parse(s) ==
    LET both == parts(s)
    IN  IF ~both.ok THEN both
        ELSE Parsed(both.val.rest, Oneill(both.val.val[1], both.val.val[2]))

OneillTryFrom(s) ==
    LET index == parse(s)
    IN  IF ~index.ok THEN Err(OneillFormat(index.err)) ELSE Ok(index.val.val)

----------------------------------------------------------------------------
(* Decoding one dic_ref node as a Moro reference or its text as an        *)
(* O'Neill reference                                                      *)

IndexAlphabet == {"0", "2", "7", "A", "P", "X", "-"}

LongTexts == {<<"6", "5", "5", "3", "5">>, <<"6", "5", "5", "3", "6">>,
              <<"0", "2", "7", "2">>, <<"2", "7", "2", "P", "X">>,
              <<"2", "7", "2", "X", "-", "1">>, <<"5", "2", "5", "A", " ", "7">>}

IndexTexts == SeqsUpTo(IndexAlphabet, MaxLen) \cup LongTexts

UintAttrTexts == {<<"1">>, <<"2", "5", "5">>, <<"2", "5", "6">>,
                  <<"6", "5", "5", "3", "5">>, <<"6", "5", "5", "3", "6">>, <<"x">>}

MoroAttrs == {<<>>} \cup {<<<<"m_vol", v>>>> : v \in UintAttrTexts}
                    \cup {<<<<"m_page", p>>>> : p \in UintAttrTexts}
                    \cup {<<<<"m_vol", v>>, <<"m_page", p>>>> : v, p \in UintAttrTexts}

DicRefNodes ==
    {Leaf("dic_ref", 1, t, a) : t \in {None} \cup {Some(s) : s \in IndexTexts}, a \in MoroAttrs}

InitIndex ==
    /\ input \in DicRefNodes
    /\ result = Pending
    /\ pc = "start"
    /\ edits = 0

DecodeMoro ==
    /\ pc = "start"
    /\ input.tag = "dic_ref"
    /\ result' = moro_from(input)
    /\ pc' = "moro"
    /\ UNCHANGED <<input, edits>>

DecodeOneill ==
    /\ pc = "start"
    /\ input.tag = "dic_ref"
    /\ IsSome(input.text)
    /\ result' = OneillTryFrom(Unwrap(input.text))
    /\ pc' = "oneill"
    /\ UNCHANGED <<input, edits>>

NextIndex == DecodeMoro \/ DecodeOneill

SpecIndex == InitIndex /\ [][NextIndex]_vars

----------------------------------------------------------------------------
(* Properties of the index grammars *)

MoroDecoded == pc = "moro" /\ IsSome(input.text)

OneillDecoded == pc = "oneill" /\ IsSome(input.text)

(* The leading digits of a text, the letters directly after them, and the *)
(* rest.                                                                  *)
LeadingDigits(t) == SubSeq(t, 1, RunLen(t, Digits))

AfterDigits(t) == SubSeq(t, RunLen(t, Digits) + 1, Len(t))

LetterRun(t) == SubSeq(AfterDigits(t), 1, RunLen(AfterDigits(t), AsciiAlphabetic))

HasIndex(t) == LeadingDigits(t) /= <<>> /\ DecVal(LeadingDigits(t)) <= U16Max

MoroSuffixLetters ==
    [s \in {"None", "X", "P", "PX"} |->
        CASE s = "None" -> <<>> [] s = "X" -> <<"X">> [] s = "P" -> <<"P">>
          [] s = "PX" -> <<"P", "X">>]

MoroSuffixOf(run) == CHOOSE s \in DOMAIN MoroSuffixLetters : MoroSuffixLetters[s] = run

IsMoroSuffix(run) == \E s \in DOMAIN MoroSuffixLetters : MoroSuffixLetters[s] = run

(* C2: a Moro index text must begin with an unsigned integer, which       *)
(* becomes the index; the run of ASCII letters after it decodes as        *)
(* empty -> None, X -> X, P -> P, PX -> PX, and any other run of letters  *)
(* makes the decode fail.                                                 *)
C2_MoroIndexText ==
    MoroDecoded =>
        LET t == Unwrap(input.text)
        IN  /\ LeadingDigits(t) = <<>> => ~result.ok
            /\ ~IsMoroSuffix(LetterRun(t)) => ~result.ok
            /\ result.ok =>
                 /\ result.val.index = DecVal(LeadingDigits(t))
                 /\ result.val.suffix = MoroSuffixOf(LetterRun(t))
            /\ (HasIndex(t) /\ IsMoroSuffix(LetterRun(t)) /\ input.attrs = <<>>) => result.ok

C2_Witness ==
    /\ MoroDecoded
    /\ Unwrap(input.text) = <<"2", "P", "X">>
    /\ result.ok
    /\ result.val.index = 2
    /\ result.val.suffix = "PX"

RECURSIVE ToDecimal(_)
ToDecimal(n) == IF n < 10 THEN <<DigitChar[n]>>
                ELSE Append(ToDecimal(n \div 10), DigitChar[n % 10])

MoroEncode(m) == ToDecimal(m.index) \o MoroSuffixLetters[m.suffix]

OneillEncode(o) == ToDecimal(o.number) \o (IF IsSome(o.suffix) THEN <<Unwrap(o.suffix)>> ELSE <<>>)

Encoded == IF pc = "moro" THEN MoroEncode(result.val) ELSE OneillEncode(result.val)

IndexAccepted == (MoroDecoded \/ OneillDecoded) /\ result.ok

(* A canonical index text: a decimal numeral without superfluous leading  *)
(* zeros, followed by letters only.                                       *)
Canonical(t) ==
    /\ LeadingDigits(t) /= <<>>
    /\ (t[1] = "0" => Len(LeadingDigits(t)) = 1)
    /\ Len(LeadingDigits(t)) + Len(LetterRun(t)) = Len(t)

(* C9 as stated: for every text the Moro or O'Neill decoder accepts,      *)
(* re-encoding the decoded value as the decimal index followed by the     *)
(* suffix letters reproduces the original text.                           *)
C9_RoundTripEveryText == IndexAccepted => Encoded = Unwrap(input.text)

(* C9, amended: for every text the Moro or O'Neill decoder accepts,       *)
(* re-encoding the decoded value reproduces the original text exactly     *)
(* when the text is canonical: no superfluous leading zero in the index   *)
(* and nothing after the suffix letters.                                  *)
C9_RoundTripCanonical ==
    IndexAccepted => (Encoded = Unwrap(input.text) <=> Canonical(Unwrap(input.text)))

C9_Witness ==
    /\ OneillDecoded
    /\ result.ok
    /\ Unwrap(input.text) = <<"7", "A">>
    /\ Encoded = <<"7", "A">>

WellFormedUint(v, max) == IsNumeral(v) /\ NumeralValue(v) <= max

ExpectedUint(a, max) == IF IsSome(a) THEN Some(NumeralValue(Unwrap(a))) ELSE None

(* C10: given an index text that decodes, moro::from reads m_vol and       *)
(* m_page independently: each of the four present/absent combinations is  *)
(* accepted, an absent attribute gives None for that field only, a        *)
(* present well-formed attribute gives Some(value), and a present         *)
(* attribute that is not a number in range makes the decode fail.         *)
C10_MoroVolumePage ==
    (MoroDecoded /\ HasIndex(Unwrap(input.text)) /\ IsMoroSuffix(LetterRun(Unwrap(input.text)))) =>
        LET vol == AttrOpt(input, "m_vol")
            page == AttrOpt(input, "m_page")
            volFine == IsSome(vol) => WellFormedUint(Unwrap(vol), U8Max)
            pageFine == IsSome(page) => WellFormedUint(Unwrap(page), U16Max)
        IN  /\ result.ok <=> (volFine /\ pageFine)
            /\ result.ok =>
                 /\ result.val.volume = ExpectedUint(vol, U8Max)
                 /\ result.val.page = ExpectedUint(page, U16Max)

C10_Witness ==
    /\ MoroDecoded
    /\ input.attrs = <<<<"m_page", <<"2", "5", "6">>>>>>
    /\ result.ok
    /\ result.val.volume = None
    /\ result.val.page = Some(256)

(* C11: an O'Neill index text must begin with an unsigned integer; the     *)
(* run of ASCII letters after it decodes as empty -> no suffix and         *)
(* A -> the suffix A, and any other run of letters fails with the          *)
(* unknown-suffix error.                                                   *)
C11_OneillIndexText ==
    OneillDecoded =>
        LET t == Unwrap(input.text)
            number == DecVal(LeadingDigits(t))
        IN  /\ LeadingDigits(t) = <<>> => ~result.ok
            /\ (HasIndex(t) /\ LetterRun(t) = <<>>) => result = Ok(Oneill(number, None))
            /\ (HasIndex(t) /\ LetterRun(t) = <<"A">>) => result = Ok(Oneill(number, Some("A")))
            /\ (HasIndex(t) /\ LetterRun(t) \notin {<<>>, <<"A">>}) =>
                 /\ ~result.ok
                 /\ result.err.kind = UnknownSuffix.kind

(* What the decoder does with an unknown run of letters: the error is     *)
(* the Format error of the grammar, as for a text without an index.       *)
C11_UnknownSuffixIsFormat ==
    OneillDecoded =>
        LET t == Unwrap(input.text)
            number == DecVal(LeadingDigits(t))
        IN  /\ LeadingDigits(t) = <<>> => result = Err(OneillFormat(NomError("Digit")))
            /\ (HasIndex(t) /\ LetterRun(t) = <<>>) => result = Ok(Oneill(number, None))
            /\ (HasIndex(t) /\ LetterRun(t) = <<"A">>) => result = Ok(Oneill(number, Some("A")))
            /\ (HasIndex(t) /\ LetterRun(t) \notin {<<>>, <<"A">>}) =>
                 result = Err(OneillFormat(NomError("MapRes")))

C11_FailingInput ==
    /\ OneillDecoded
    /\ Unwrap(input.text) = <<"7", "X">>
    /\ result = Err(OneillFormat(NomError("MapRes")))

(* The text cut after its leading digits and the letters that follow,     *)
(* and what is cut off.                                                   *)
WithoutTail(t) == LeadingDigits(t) \o LetterRun(t)

TailOf(t) == SubSeq(t, Len(WithoutTail(t)) + 1, Len(t))

OneillSuffixOf(run) == IF run = <<"A">> THEN Some("A") ELSE None

(* C16: the Moro and O'Neill decoders read the leading digits and the     *)
(* ASCII letters directly after them and discard the rest: a text whose   *)
(* valid index and suffix are followed by a non-letter character and      *)
(* anything after it is accepted, and every text with such a tail gives   *)
(* the result of the text without the tail.                               *)
C16_TailDiscarded ==
    ((MoroDecoded \/ OneillDecoded) /\ TailOf(Unwrap(input.text)) /= <<>>) =>
        LET t == Unwrap(input.text)
            number == DecVal(LeadingDigits(t))
        IN  /\ TailOf(t)[1] \notin AsciiAlphabetic
            /\ pc = "moro" =>
                 /\ result = moro_from([input EXCEPT !.text = Some(WithoutTail(t))])
                 /\ (HasIndex(t) /\ IsMoroSuffix(LetterRun(t)) /\ input.attrs = <<>>) =>
                      result = Ok(Moro(None, None, number, MoroSuffixOf(LetterRun(t))))
            /\ pc = "oneill" =>
                 /\ result = OneillTryFrom(WithoutTail(t))
                 /\ (HasIndex(t) /\ LetterRun(t) \in {<<>>, <<"A">>}) =>
                      result = Ok(Oneill(number, OneillSuffixOf(LetterRun(t))))

C16_Witness ==
    /\ MoroDecoded
    /\ Unwrap(input.text) = <<"2", "7", "2", "X", "-", "1">>
    /\ input.attrs = <<>>
    /\ result = Ok(Moro(None, None, 272, "X"))

C16_WitnessOneill ==
    /\ OneillDecoded
    /\ Unwrap(input.text) = <<"5", "2", "5", "A", " ", "7">>
    /\ result = Ok(Oneill(525, Some("A")))

----------------------------------------------------------------------------
(* reading.rs *)

Reading(variant, payload) == [variant |-> variant, payload |-> payload]

ReadingShared(e) == [kind |-> "Shared", inner |-> e]

UnrecognizedType(pos) == [kind |-> "UnrecognizedType", pos |-> pos]

ReadingPinYin(e) == [kind |-> "PinYin", inner |-> e]

ReadingKunyomi(e) == [kind |-> "Kunyomi", inner |-> e]

Tones == {"1", "2", "3", "4", "5"}

(* pin_yin::from: a romanization followed by one tone digit *)
pin_yin_from(node) ==
    IF ~text(node).ok THEN Err([kind |-> "Shared", inner |-> text(node).err])
    ELSE LET t == text(node).val
         IN  IF Len(t) >= 2 /\ t[Len(t)] \in Tones
             THEN Ok([romanization |-> SubSeq(t, 1, Len(t) - 1), tone |-> t[Len(t)]])
             ELSE Err([kind |-> "Format", pos |-> PosError(node)])

(* kunyomi::from: the text of the node, required *)
kunyomi_from(node) ==
    IF ~text(node).ok THEN Err([kind |-> "Shared", inner |-> text(node).err])
    ELSE Ok([okurigana |-> text(node).val])

ReadingText(node, variant) ==
    IF ~text(node).ok THEN Err(ReadingShared(text(node).err))
    ELSE Ok(Reading(variant, text(node).val))

(* A reading::from whose last arm gives a default variant. *)
reading_from_defaulting(node) ==
    IF ~attr(node, "r_type").ok THEN Err(ReadingShared(attr(node, "r_type").err))
    ELSE LET r_type == attr(node, "r_type").val
         IN  CASE r_type = "pinyin" ->
                    LET pin_yin == pin_yin_from(node)
                    IN  IF pin_yin.ok THEN Ok(Reading("PinYin", pin_yin.val))
                        ELSE Err(ReadingPinYin(pin_yin.err))
               [] r_type = "korean_r" -> ReadingText(node, "KoreanRomanized")
               [] r_type = "korean_h" -> ReadingText(node, "KoreanHangul")
               [] r_type = "vietnam" -> ReadingText(node, "Vietnam")
               [] r_type = "ja_kun" ->
                    LET kunyomi == kunyomi_from(node)
                    IN  IF kunyomi.ok THEN Ok(Reading("Kunyomi", kunyomi.val))
                        ELSE Err(ReadingKunyomi(kunyomi.err))
               [] OTHER -> ReadingText(node, "Onyomi")

reading_from(node) ==
    IF ~attr(node, "r_type").ok THEN Err(ReadingShared(attr(node, "r_type").err))
    ELSE LET r_type == attr(node, "r_type").val
         IN  CASE r_type = "pinyin" ->
                    LET pin_yin == pin_yin_from(node)
                    IN  IF pin_yin.ok THEN Ok(Reading("PinYin", pin_yin.val))
                        ELSE Err(ReadingPinYin(pin_yin.err))
               [] r_type = "korean_r" -> ReadingText(node, "KoreanRomanized")
               [] r_type = "korean_h" -> ReadingText(node, "KoreanHangul")
               [] r_type = "vietnam" -> ReadingText(node, "Vietnam")
               [] r_type = "ja_on" -> ReadingText(node, "Onyomi")
               [] r_type = "ja_kun" ->
                    LET kunyomi == kunyomi_from(node)
                    IN  IF kunyomi.ok THEN Ok(Reading("Kunyomi", kunyomi.val))
                        ELSE Err(ReadingKunyomi(kunyomi.err))
               [] OTHER -> Err(UnrecognizedType(PosError(node)))

ReadingTypes == {"pinyin", "korean_r", "korean_h", "vietnam", "ja_on", "ja_kun",
                 "ja_nanori", "Pinyin", "korean", ""}

ReadingAlphabet == {"y", "a", "4", "."}

ReadingTexts == SeqsUpTo(ReadingAlphabet, MaxLen)

ReadingAttrs == {<<>>, <<<<"on_type", "kan">>>>} \cup {<<<<"r_type", r>>>> : r \in ReadingTypes}

ReadingNodes ==
    {Leaf("reading", p, t, a) : p \in {1, 2}, t \in {None} \cup {Some(x) : x \in ReadingTexts},
                                a \in ReadingAttrs}

InitReading ==
    /\ input \in ReadingNodes
    /\ result = Pending
    /\ pc = "start"
    /\ edits = 0

DecodeReading ==
    /\ pc = "start"
    /\ input.tag = "reading"
    /\ result' = reading_from(input)
    /\ pc' = "done"
    /\ UNCHANGED <<input, edits>>

NextReading == DecodeReading

SpecReading == InitReading /\ [][NextReading]_vars

ReadingDecoded == pc = "done" /\ input.tag = "reading"

ReadingVariantOf ==
    [r \in {"pinyin", "korean_r", "korean_h", "vietnam", "ja_on", "ja_kun"} |->
        CASE r = "pinyin" -> "PinYin"
          [] r = "korean_r" -> "KoreanRomanized"
          [] r = "korean_h" -> "KoreanHangul"
          [] r = "vietnam" -> "Vietnam"
          [] r = "ja_on" -> "Onyomi"
          [] r = "ja_kun" -> "Kunyomi"]

PlainReadingTypes == {"korean_r", "korean_h", "vietnam", "ja_on"}

(* C8: reading::from maps r_type over a closed vocabulary: pinyin gives   *)
(* PinYin, korean_r KoreanRomanized, korean_h KoreanHangul, vietnam       *)
(* Vietnam, ja_on Onyomi, ja_kun Kunyomi; every other value gives         *)
(* UnrecognizedType positioned at the reading node and a missing r_type   *)
(* a Shared missing-attribute error; no reading gets another variant.     *)
C8_ReadingTypeMapping ==
    ReadingDecoded =>
        LET rt == AttrOpt(input, "r_type")
        IN  /\ ~IsSome(rt) =>
                 result = Err(ReadingShared([kind |-> "MissingAttribute", pos |-> input.pos,
                                             name |-> "r_type"]))
            /\ (IsSome(rt) /\ Unwrap(rt) \notin DOMAIN ReadingVariantOf) =>
                 result = Err(UnrecognizedType(input.pos))
            /\ (IsSome(rt) /\ Unwrap(rt) \in DOMAIN ReadingVariantOf) =>
                 /\ result.ok => result.val.variant = ReadingVariantOf[Unwrap(rt)]
                 /\ ~result.ok => result.err.kind \in {"Shared", "PinYin", "Kunyomi"}
            /\ (IsSome(rt) /\ Unwrap(rt) \in PlainReadingTypes /\ IsSome(input.text)) =>
                 result = Ok(Reading(ReadingVariantOf[Unwrap(rt)], Unwrap(input.text)))

C8_Witness ==
    /\ ReadingDecoded
    /\ AttrOpt(input, "r_type") = Some("ja_nanori")
    /\ input.pos = 2
    /\ result = Err(UnrecognizedType(2))

----------------------------------------------------------------------------
(* The field decoders that character::from delegates to *)

Unrecognized(node) == [kind |-> "Unrecognized", pos |-> PosError(node), name |-> ""]

(* A closed-variant decoder: the attribute selects the variant out of a   *)
(* closed vocabulary and the text of the node is its payload.             *)
tagged_from(node, name, vocabulary) ==
    LET kind == attr(node, name)
    IN  IF ~kind.ok THEN kind
        ELSE IF kind.val \notin vocabulary THEN Err(Unrecognized(node))
        ELSE IF ~text(node).ok THEN text(node)
        ELSE Ok([variant |-> kind.val, payload |-> text(node).val])

codepoint_from(node) == tagged_from(node, "cp_type", {"ucs", "jis208", "jis212", "jis213"})

radical_from(node) == tagged_from(node, "rad_type", {"classical", "nelson_c"})

variant_from(node) ==
    tagged_from(node, "var_type", {"jis208", "jis212", "jis213", "ucs", "deroo", "njecd",
                                   "s_h", "nelson_c", "oneill"})

query_code_from(node) ==
    tagged_from(node, "qc_type", {"skip", "sh_desc", "four_corner", "deroo", "misclass"})

NumericReferences == {"nelson_c", "nelson_n", "heisig", "oneill_kk"}

reference_from(node) ==
    IF ~attr(node, "dr_type").ok THEN Err(attr(node, "dr_type").err)
    ELSE LET dr_type == attr(node, "dr_type").val
         IN  CASE dr_type = "moro" ->
                    LET moro == moro_from(node)
                    IN  IF moro.ok THEN Ok([variant |-> "Moro", payload |-> moro.val]) ELSE moro
               [] dr_type = "oneill_names" ->
                    LET oneill == OneillTryFrom(text(node).val)
                    IN  IF ~text(node).ok THEN text(node)
                        ELSE IF oneill.ok THEN Ok([variant |-> "OneillNames", payload |-> oneill.val])
                        ELSE oneill
               [] dr_type \in NumericReferences ->
                    LET number == text_uint(node, U16Max)
                    IN  IF number.ok THEN Ok([variant |-> dr_type, payload |-> number.val])
                        ELSE number
               [] OTHER -> Err(Unrecognized(node))

(* stroke_count::from: the first stroke_count child is the accepted count, *)
(* the following ones are miscounts.                                       *)
stroke_count_from(misc) ==
    LET nodes == WithTag(misc, "stroke_count")
        counts == collect([i \in 1..Len(nodes) |-> text_uint(nodes[i], U8Max)])
    IN  IF ~counts.ok THEN counts
        ELSE IF counts.val = <<>> THEN Err(MissingChild(misc, "stroke_count"))
        ELSE Ok([accepted |-> Head(counts.val), miscounts |-> Tail(counts.val)])

Languages == {"en", "fr", "es", "pt"}

translation_of(node) ==
    LET lang == IF IsSome(AttrOpt(node, "m_lang")) THEN Unwrap(AttrOpt(node, "m_lang")) ELSE "en"
    IN  IF ~text(node).ok THEN Err(text(node).err)
        ELSE IF lang \notin Languages THEN Err(Unrecognized(node))
        ELSE Ok([language |-> lang, text |-> text(node).val])

(* translation::from: the glosses of the rmgroup by language, in order *)
translation_from(rmgroup) ==
    LET nodes == WithTag(rmgroup, "meaning")
        all == collect([i \in 1..Len(nodes) |-> translation_of(nodes[i])])
    IN  IF ~all.ok THEN all
        ELSE Ok([l \in {all.val[i].language : i \in 1..Len(all.val)} |->
                   LET mine == SelectSeq(all.val, LAMBDA t : t.language = l)
                   IN  [i \in 1..Len(mine) |-> mine[i].text]])

TranslationsDefault == [l \in {} |-> <<>>]

----------------------------------------------------------------------------
(* character.rs *)

CharacterError(kind, e) == [kind |-> kind, inner |-> e]

NanoriText(pos) == [kind |-> "NanoriText", inner |-> [pos |-> pos]]

NonCharString == [kind |-> "NonCharString", inner |-> None]

(* The ? operator: an error is converted into the CharacterError variant  *)
(* of its type and returned.                                              *)
Try(r, kind) == IF r.ok THEN r ELSE Err(CharacterError(kind, r.err))

(* A string_to_char that takes the first character of a longer text. *)
string_to_char_first(s) == IF s = <<>> THEN Err(NonCharString) ELSE Ok(Head(s))

string_to_char(s) ==
    LET radical == IF s = <<>> THEN Err(NonCharString) ELSE Ok(Head(s))
    IN  IF Len(s) >= 2 THEN Err(NonCharString) ELSE radical

(* The static table of kradical_static: kanji and its radicals. "K" stands *)
(* for the kanji of the test document.                                     *)
DECOMPOSITIONS ==
    << [kanji |-> "J", radicals |-> <<"|">>],
       [kanji |-> "K", radicals |-> <<"|", "-", "o">>],
       [kanji |-> "K", radicals |-> <<"o">>] >>

Max(S) == CHOOSE x \in S : \A y \in S : x >= y

(* A lookup that keeps searching and returns the last matching entry. *)
decomposition_last(literal) ==
    LET hits == {i \in 1..Len(DECOMPOSITIONS) : DECOMPOSITIONS[i].kanji = literal}
    IN  IF hits = {} THEN <<>> ELSE DECOMPOSITIONS[Max(hits)].radicals

decomposition(literal) ==
    LET hits == {i \in 1..Len(DECOMPOSITIONS) : DECOMPOSITIONS[i].kanji = literal}
    IN  IF hits = {} THEN <<>> ELSE DECOMPOSITIONS[Min(hits)].radicals

(* A coalesce that turns the error of a present value into None. *)
coalesce_defaulting(opt) ==
    IF IsSome(opt) THEN (IF Unwrap(opt).ok THEN Ok(Some(Unwrap(opt).val)) ELSE Ok(None))
    ELSE Ok(None)

coalesce(opt) ==
    IF IsSome(opt) THEN (IF Unwrap(opt).ok THEN Ok(Some(Unwrap(opt).val)) ELSE Unwrap(opt))
    ELSE Ok(None)

(* child(misc, tag).ok().map(cb) *)
OptionalChild(node, tag) ==
    LET found == child(node, tag) IN IF found.ok THEN Some(found.val) ELSE None

(* children(child(node, "codepoint")?, "cp_value", codepoint::from)? *)
Codepoints(node) ==
    LET parent == child(node, "codepoint")
        nodes == WithTag(parent.val, "cp_value")
    IN  IF ~parent.ok THEN Try(parent, "Shared")
        ELSE Try(collect([i \in 1..Len(nodes) |-> codepoint_from(nodes[i])]), "Codepoint")

Radicals(node) ==
    LET parent == child(node, "radical")
        nodes == WithTag(parent.val, "rad_value")
    IN  IF ~parent.ok THEN Try(parent, "Shared")
        ELSE Try(collect([i \in 1..Len(nodes) |-> radical_from(nodes[i])]), "Radical")

(* A query code decoder that takes a missing group for an empty one. *)
QueryCodesOptional(node) ==
    LET parent == child(node, "query_code")
        nodes == WithTag(parent.val, "q_code")
    IN  IF ~parent.ok THEN Ok(<<>>)
        ELSE Try(collect([i \in 1..Len(nodes) |-> query_code_from(nodes[i])]), "QueryCode")

QueryCodes(node) ==
    LET parent == child(node, "query_code")
        nodes == WithTag(parent.val, "q_code")
    IN  IF ~parent.ok THEN Try(parent, "Shared")
        ELSE Try(collect([i \in 1..Len(nodes) |-> query_code_from(nodes[i])]), "QueryCode")

Literal(node) ==
    LET literal == child(node, "literal")
    IN  IF ~literal.ok THEN Try(literal, "Shared")
        ELSE IF ~text(literal.val).ok THEN Try(text(literal.val), "Shared")
        ELSE string_to_char(text(literal.val).val)

Misc(node) == Try(child(node, "misc"), "Shared")

GradeOf(misc) ==
    LET grade == OptionalChild(misc, "grade")
    IN  Try(coalesce(IF IsSome(grade) THEN Some(GradeTryFrom(Unwrap(grade))) ELSE None), "Grade")

StrokeCounts(misc) == Try(stroke_count_from(misc), "StrokeCount")

Variants(misc) ==
    LET nodes == WithTag(misc, "variant")
    IN  Try(collect([i \in 1..Len(nodes) |-> variant_from(nodes[i])]), "Variant")

Frequency(misc) ==
    LET freq == OptionalChild(misc, "freq")
    IN  Try(coalesce(IF IsSome(freq) THEN Some(text_uint(Unwrap(freq), U16Max)) ELSE None),
            "Shared")

RadicalNames(misc) ==
    LET nodes == WithTag(misc, "rad_name")
    IN  Try(collect([i \in 1..Len(nodes) |-> text(nodes[i])]), "Shared")

Jlpt(misc) ==
    LET jlpt == OptionalChild(misc, "jlpt")
    IN  Try(coalesce(IF IsSome(jlpt) THEN Some(text_uint(Unwrap(jlpt), U8Max)) ELSE None),
            "Shared")

(* A reference decoder that leaves out the dic_ref children that fail. *)
ReferencesLenient(node) ==
    LET dic_number == child(node, "dic_number")
        nodes == WithTag(dic_number.val, "dic_ref")
        decoded == [i \in 1..Len(nodes) |-> reference_from(nodes[i])]
    IN  IF dic_number.ok
        THEN Ok([i \in 1..Len(SelectSeq(decoded, LAMBDA r : r.ok)) |->
                    SelectSeq(decoded, LAMBDA r : r.ok)[i].val])
        ELSE Ok(<<>>)

References(node) ==
    LET dic_number == child(node, "dic_number")
        nodes == WithTag(dic_number.val, "dic_ref")
    IN  IF dic_number.ok
        THEN Try(collect([i \in 1..Len(nodes) |-> reference_from(nodes[i])]),
                 "DictionaryReference")
        ELSE IF dic_number.err.kind = "MissingChild" THEN Ok(<<>>)
        ELSE Try(dic_number, "Shared")

Nanori(reading_meaning) ==
    LET nodes == WithTag(reading_meaning, "nanori")
    IN  collect([i \in 1..Len(nodes) |->
                   IF text(nodes[i]).ok THEN text(nodes[i])
                   ELSE Err(NanoriText(PosError(reading_meaning)))])

Readings(rmgroup) ==
    LET nodes == WithTag(rmgroup, "reading")
    IN  collect([i \in 1..Len(nodes) |-> reading_from(nodes[i])])

(* A reading/meaning decoder that reports a missing group. *)
ReadingMeaningRequired(node) ==
    IF child(node, "reading_meaning").ok
    THEN LET reading_meaning == child(node, "reading_meaning").val
             rmgroup == child(reading_meaning, "rmgroup")
             readings == Readings(rmgroup.val)
             translations == translation_from(rmgroup.val)
             nanori == Nanori(reading_meaning)
         IN  IF ~rmgroup.ok THEN Try(rmgroup, "Shared")
             ELSE IF ~readings.ok THEN Try(readings, "Reading")
             ELSE IF ~translations.ok THEN Try(translations, "Translation")
             ELSE IF ~nanori.ok THEN nanori
             ELSE Ok([readings |-> readings.val, nanori |-> nanori.val,
                      translations |-> translations.val])
    ELSE Try(child(node, "reading_meaning"), "Shared")

(* A reading/meaning decoder that falls back to the empty lists whenever  *)
(* the content of a present reading_meaning fails to decode.              *)
ReadingMeaningLenient(node) ==
    IF child(node, "reading_meaning").ok
    THEN LET reading_meaning == child(node, "reading_meaning").val
             rmgroup == child(reading_meaning, "rmgroup")
             readings == Readings(rmgroup.val)
             translations == translation_from(rmgroup.val)
             nanori == Nanori(reading_meaning)
         IN  IF rmgroup.ok /\ readings.ok /\ translations.ok /\ nanori.ok
             THEN Ok([readings |-> readings.val, nanori |-> nanori.val,
                      translations |-> translations.val])
             ELSE Ok([readings |-> <<>>, nanori |-> <<>>, translations |-> TranslationsDefault])
    ELSE Ok([readings |-> <<>>, nanori |-> <<>>, translations |-> TranslationsDefault])

ReadingMeaning(node) ==
    IF child(node, "reading_meaning").ok
    THEN LET reading_meaning == child(node, "reading_meaning").val
             rmgroup == child(reading_meaning, "rmgroup")
             readings == Readings(rmgroup.val)
             translations == translation_from(rmgroup.val)
             nanori == Nanori(reading_meaning)
         IN  IF ~rmgroup.ok THEN Try(rmgroup, "Shared")
             ELSE IF ~readings.ok THEN Try(readings, "Reading")
             ELSE IF ~translations.ok THEN Try(translations, "Translation")
             ELSE IF ~nanori.ok THEN nanori
             ELSE Ok([readings |-> readings.val, nanori |-> nanori.val,
                      translations |-> translations.val])
    ELSE Ok([readings |-> <<>>, nanori |-> <<>>, translations |-> TranslationsDefault])

(* A character::from that decodes the query codes before the dictionary   *)
(* references.                                                            *)
character_from_reordered(node) ==
    LET literal == Literal(node)
        codepoints == Codepoints(node)
        radicals == Radicals(node)
        misc == Misc(node)
        grade == GradeOf(misc.val)
        stroke_counts == StrokeCounts(misc.val)
        variants == Variants(misc.val)
        frequency == Frequency(misc.val)
        radical_names == RadicalNames(misc.val)
        jlpt == Jlpt(misc.val)
        references == References(node)
        query_codes == QueryCodes(node)
        reading_meaning == ReadingMeaning(node)
    IN  IF ~literal.ok THEN literal
        ELSE IF ~codepoints.ok THEN codepoints
        ELSE IF ~radicals.ok THEN radicals
        ELSE IF ~misc.ok THEN misc
        ELSE IF ~grade.ok THEN grade
        ELSE IF ~stroke_counts.ok THEN stroke_counts
        ELSE IF ~variants.ok THEN variants
        ELSE IF ~frequency.ok THEN frequency
        ELSE IF ~radical_names.ok THEN radical_names
        ELSE IF ~jlpt.ok THEN jlpt
        ELSE IF ~query_codes.ok THEN query_codes
        ELSE IF ~references.ok THEN references
        ELSE IF ~reading_meaning.ok THEN reading_meaning
        ELSE Ok([literal |-> literal.val,
                 codepoints |-> codepoints.val,
                 radicals |-> radicals.val,
                 grade |-> grade.val,
                 stroke_counts |-> stroke_counts.val,
                 variants |-> variants.val,
                 frequency |-> frequency.val,
                 radical_names |-> radical_names.val,
                 jlpt |-> jlpt.val,
                 references |-> references.val,
                 query_codes |-> query_codes.val,
                 nanori |-> reading_meaning.val.nanori,
                 readings |-> reading_meaning.val.readings,
                 translations |-> reading_meaning.val.translations,
                 decomposition |-> decomposition(literal.val)])

character_from(node) ==
    LET literal == Literal(node)
        codepoints == Codepoints(node)
        radicals == Radicals(node)
        misc == Misc(node)
        grade == GradeOf(misc.val)
        stroke_counts == StrokeCounts(misc.val)
        variants == Variants(misc.val)
        frequency == Frequency(misc.val)
        radical_names == RadicalNames(misc.val)
        jlpt == Jlpt(misc.val)
        references == References(node)
        query_codes == QueryCodes(node)
        reading_meaning == ReadingMeaning(node)
    IN  IF ~literal.ok THEN literal
        ELSE IF ~codepoints.ok THEN codepoints
        ELSE IF ~radicals.ok THEN radicals
        ELSE IF ~misc.ok THEN misc
        ELSE IF ~grade.ok THEN grade
        ELSE IF ~stroke_counts.ok THEN stroke_counts
        ELSE IF ~variants.ok THEN variants
        ELSE IF ~frequency.ok THEN frequency
        ELSE IF ~radical_names.ok THEN radical_names
        ELSE IF ~jlpt.ok THEN jlpt
        ELSE IF ~references.ok THEN references
        ELSE IF ~query_codes.ok THEN query_codes
        ELSE IF ~reading_meaning.ok THEN reading_meaning
        ELSE Ok([literal |-> literal.val,
                 codepoints |-> codepoints.val,
                 radicals |-> radicals.val,
                 grade |-> grade.val,
                 stroke_counts |-> stroke_counts.val,
                 variants |-> variants.val,
                 frequency |-> frequency.val,
                 radical_names |-> radical_names.val,
                 jlpt |-> jlpt.val,
                 references |-> references.val,
                 query_codes |-> query_codes.val,
                 nanori |-> reading_meaning.val.nanori,
                 readings |-> reading_meaning.val.readings,
                 translations |-> reading_meaning.val.translations,
                 decomposition |-> decomposition(literal.val)])

----------------------------------------------------------------------------
(* Decoding one character node: the node of the test document, changed in *)
(* up to MaxEdits places, is handed to character::from.                   *)

TestCharacter ==
    Node("character", 0, None, <<>>, <<
        Leaf("literal", 1, Some(<<"K">>), <<>>),
        Node("codepoint", 2, None, <<>>, <<
            Leaf("cp_value", 3, Some(<<"4", "e", "9", "c">>), <<<<"cp_type", "ucs">>>>) >>),
        Node("radical", 4, None, <<>>, <<
            Leaf("rad_value", 5, Some(<<"2">>), <<<<"rad_type", "classical">>>>) >>),
        Node("misc", 6, None, <<>>, <<
            Leaf("grade", 7, Some(<<"8">>), <<>>),
            Leaf("stroke_count", 8, Some(<<"7">>), <<>>),
            Leaf("variant", 9, Some(<<"1", "-", "4", "8">>), <<<<"var_type", "jis208">>>>),
            Leaf("freq", 10, Some(<<"1", "5", "0", "9">>), <<>>),
            Leaf("rad_name", 11, Some(<<"a">>), <<>>),
            Leaf("jlpt", 12, Some(<<"1">>), <<>>) >>),
        Node("dic_number", 13, None, <<>>, <<
            Leaf("dic_ref", 14, Some(<<"4", "3">>), <<<<"dr_type", "nelson_c">>>>),
            Leaf("dic_ref", 15, Some(<<"2", "7", "2">>),
                 << <<"dr_type", "moro">>, <<"m_vol", <<"1">>>>, <<"m_page", <<"5", "2", "5">>>> >>) >>),
        Node("query_code", 16, None, <<>>, <<
            Leaf("q_code", 17, Some(<<"4", "-", "7">>), <<<<"qc_type", "skip">>>>) >>),
        Node("reading_meaning", 18, None, <<>>, <<
            Node("rmgroup", 19, None, <<>>, <<
                Leaf("reading", 20, Some(<<"y", "a", "4">>), <<<<"r_type", "pinyin">>>>),
                Leaf("reading", 21, Some(<<"a">>), <<<<"r_type", "ja_on">>>>),
                Leaf("meaning", 22, Some(<<"A", "s", "i", "a">>), <<>>),
                Leaf("meaning", 23, Some(<<"A", "s", "i", "e">>), <<<<"m_lang", "fr">>>>) >>),
            Leaf("nanori", 24, Some(<<"y", "a">>), <<>>) >>) >>)

RECURSIVE PathsOf(_)
PathsOf(node) ==
    {<<>>} \cup UNION {{<<i>> \o p : p \in PathsOf(node.kids[i])} : i \in 1..Len(node.kids)}

RECURSIVE NodeAt(_, _)
NodeAt(node, path) == IF path = <<>> THEN node ELSE NodeAt(node.kids[Head(path)], Tail(path))

RemoveKid(kids, i) == SubSeq(kids, 1, i - 1) \o SubSeq(kids, i + 1, Len(kids))

RECURSIVE RemoveAt(_, _)
RemoveAt(node, path) ==
    IF Len(path) = 1 THEN [node EXCEPT !.kids = RemoveKid(@, Head(path))]
    ELSE [node EXCEPT !.kids[Head(path)] = RemoveAt(@, Tail(path))]

RECURSIVE ReplaceAt(_, _, _)
ReplaceAt(node, path, new) ==
    IF path = <<>> THEN new
    ELSE [node EXCEPT !.kids[Head(path)] = ReplaceAt(@, Tail(path), new)]

LeafPaths(node) == {p \in PathsOf(node) : p /= <<>> /\ NodeAt(node, p).kids = <<>>}

EditTexts == {None, Some(<<"7">>), Some(<<"x", "y">>)}

LiteralTexts == SeqsUpTo({"J", "K"}, MaxLen)

InitCharacter ==
    /\ input = TestCharacter
    /\ result = Pending
    /\ pc = "edit"
    /\ edits = 0

CanEdit == pc = "edit" /\ edits < MaxEdits

Edit(node) ==
    /\ input' = node
    /\ edits' = edits + 1
    /\ UNCHANGED <<result, pc>>

RemoveNode ==
    /\ CanEdit
    /\ \E p \in PathsOf(input) \ {<<>>} : Edit(RemoveAt(input, p))

SetText ==
    /\ CanEdit
    /\ \E p \in LeafPaths(input), t \in EditTexts :
          /\ NodeAt(input, p).text /= t
          /\ Edit(ReplaceAt(input, p, [NodeAt(input, p) EXCEPT !.text = t]))

SetAttr ==
    /\ CanEdit
    /\ \E p \in LeafPaths(input) :
          /\ NodeAt(input, p).attrs /= <<>>
          /\ Edit(ReplaceAt(input, p, [NodeAt(input, p) EXCEPT !.attrs[1][2] = "bogus"]))

SetLiteral ==
    /\ CanEdit
    /\ \E p \in LeafPaths(input) :
          /\ NodeAt(input, p).tag = "literal"
          /\ \E t \in LiteralTexts :
                /\ NodeAt(input, p).text /= Some(t)
                /\ Edit(ReplaceAt(input, p, [NodeAt(input, p) EXCEPT !.text = Some(t)]))

ScalarTags == {"grade", "freq", "jlpt"}

ScalarTexts == {<<"1", "0">>, <<"2", "5", "6">>, <<"6", "5", "5", "3", "6">>}

SetScalar ==
    /\ CanEdit
    /\ \E p \in LeafPaths(input) :
          /\ NodeAt(input, p).tag \in ScalarTags
          /\ \E t \in ScalarTexts :
                Edit(ReplaceAt(input, p, [NodeAt(input, p) EXCEPT !.text = Some(t)]))

DecodeCharacter ==
    /\ pc = "edit"
    /\ input.tag = "character"
    /\ result' = character_from(input)
    /\ pc' = "done"
    /\ UNCHANGED <<input, edits>>

NextCharacter ==
    RemoveNode \/ SetText \/ SetLiteral \/ SetAttr \/ SetScalar \/ DecodeCharacter

SpecCharacter == InitCharacter /\ [][NextCharacter]_vars

CharacterDecoded == pc = "done" /\ input.tag = "character"

----------------------------------------------------------------------------
(* Properties of character::from *)

Has(node, tag) == \E i \in 1..Len(node.kids) : node.kids[i].tag = tag

Kid(node, tag) == node.kids[Min({i \in 1..Len(node.kids) : node.kids[i].tag = tag})]

(* The outcome of each field group of the node taken by itself, in the    *)
(* order literal, codepoints, radicals, misc, grade, stroke count,        *)
(* variants, frequency, radical names, jlpt, dictionary references,       *)
(* query codes, reading/meaning.  The groups under misc count as valid    *)
(* when misc itself is missing.                                           *)
GroupResults(node) ==
    LET misc == Misc(node)
        Under(r) == IF misc.ok THEN r ELSE Ok(None)
    IN  << Literal(node), Codepoints(node), Radicals(node), misc,
           Under(GradeOf(misc.val)), Under(StrokeCounts(misc.val)), Under(Variants(misc.val)),
           Under(Frequency(misc.val)), Under(RadicalNames(misc.val)), Under(Jlpt(misc.val)),
           References(node), QueryCodes(node), ReadingMeaning(node) >>

Invalid(results) == {k \in 1..Len(results) : ~results[k].ok}

InvalidGroups(node) == Invalid(GroupResults(node))

GroupErrorKinds ==
    << {"Shared", "NonCharString"}, {"Shared", "Codepoint"}, {"Shared", "Radical"}, {"Shared"},
       {"Grade"}, {"StrokeCount"}, {"Variant"}, {"Shared"}, {"Shared"}, {"Shared"},
       {"Shared", "DictionaryReference"}, {"Shared", "QueryCode"},
       {"Shared", "Reading", "Translation", "NanoriText"} >>

ReadingMeaningGroup == 13

ReferencesGroup == 11

(* C3: a character node without a reading_meaning child, otherwise valid, *)
(* decodes to Ok with readings, translations and nanori empty; the        *)
(* absence is never reported as an error.                                 *)
C3_MissingReadingMeaning ==
    (CharacterDecoded /\ ~Has(input, "reading_meaning")) =>
        /\ InvalidGroups(input) \ {ReadingMeaningGroup} = {} => result.ok
        /\ result.ok =>
             /\ result.val.readings = <<>>
             /\ result.val.nanori = <<>>
             /\ DOMAIN result.val.translations = {}
        /\ ~result.ok =>
             /\ result.err.kind \notin {"Reading", "Translation", "NanoriText"}
             /\ result.err.kind = "Shared" => result.err.inner.name /= "reading_meaning"

C3_Witness ==
    /\ CharacterDecoded
    /\ ~Has(input, "reading_meaning")
    /\ Has(input, "dic_number")
    /\ result.ok
    /\ result.val.readings = <<>>
    /\ result.val.nanori = <<>>

MandatoryGroups == {"literal", "codepoint", "radical", "misc", "query_code"}

GroupOf ==
    [g \in MandatoryGroups |->
        CASE g = "literal" -> 1 [] g = "codepoint" -> 2 [] g = "radical" -> 3
          [] g = "misc" -> 4 [] g = "query_code" -> 12]

MissingGroupError(node, g) ==
    Err([kind |-> "Shared", inner |-> [kind |-> "MissingChild", pos |-> node.pos, name |-> g]])

(* C4: a character node that lacks one of the mandatory groups literal,   *)
(* codepoint, radical, misc, query_code never decodes to a record; when   *)
(* no group before the missing one is invalid the error is MissingChild   *)
(* of that group, positioned at the character node, wrapped as Shared.    *)
C4_MissingMandatoryGroup ==
    CharacterDecoded =>
        LET invalid == InvalidGroups(input)
        IN  \A g \in MandatoryGroups :
                ~Has(input, g) =>
                    /\ ~result.ok
                    /\ (\A k \in invalid : k >= GroupOf[g]) =>
                          result = MissingGroupError(input, g)

C4_Witness ==
    /\ CharacterDecoded
    /\ ~Has(input, "query_code")
    /\ Has(input, "literal") /\ Has(input, "codepoint") /\ Has(input, "radical")
    /\ Has(input, "misc")
    /\ result = MissingGroupError(input, "query_code")

(* C5: character::from decodes the groups in the order literal,           *)
(* codepoints, radicals, misc (grade, stroke count, variants, frequency,  *)
(* radical names, jlpt), dictionary references, query codes,              *)
(* reading/meaning; when several groups are invalid the error returned is *)
(* that of the earliest invalid group, in the CharacterError variant of   *)
(* that group, and a record is returned only when no group is invalid.    *)
C5_FirstErrorInOrder ==
    CharacterDecoded =>
        LET results == GroupResults(input)
            invalid == Invalid(results)
        IN  IF invalid = {} THEN result.ok
            ELSE /\ result = results[Min(invalid)]
                 /\ result.err.kind \in GroupErrorKinds[Min(invalid)]

C5_Witness ==
    /\ CharacterDecoded
    /\ ~result.ok
    /\ InvalidGroups(input) = {ReferencesGroup, 12}
    /\ ~result.ok
    /\ result.err.kind = "DictionaryReference"

(* C6: string_to_char gives Ok(c) exactly for a text of exactly one       *)
(* character c and NonCharString for the empty text and for every text of *)
(* two or more characters, so the literal of every record returned by     *)
(* character::from is the single character of the literal text.           *)
C6_LiteralOneCharacter ==
    (CharacterDecoded /\ Has(input, "literal") /\ IsSome(Kid(input, "literal").text)) =>
        LET t == Unwrap(Kid(input, "literal").text)
        IN  /\ Len(t) /= 1 => result = Err(NonCharString)
            /\ Len(t) = 1 => (result.ok \/ result.err.kind /= "NonCharString")
            /\ result.ok => (Len(t) = 1 /\ result.val.literal = t[1])

C6_Witness ==
    /\ CharacterDecoded
    /\ Has(input, "literal")
    /\ Kid(input, "literal").text = Some(<<"K", "J">>)
    /\ result = Err(NonCharString)

DicRefs(node) == WithTag(Kid(node, "dic_number"), "dic_ref")

(* C7: a missing dic_number child gives an empty references list and no   *)
(* error; when dic_number is present every dic_ref child is decoded, and  *)
(* the failure of any dic_ref makes the whole decode fail, with           *)
(* DictionaryReference when no earlier group is invalid.                  *)
C7_DictionaryReferences ==
    CharacterDecoded =>
        IF ~Has(input, "dic_number")
        THEN /\ InvalidGroups(input) \ {ReferencesGroup} = {} => result.ok
             /\ result.ok => result.val.references = <<>>
             /\ ~result.ok =>
                  /\ result.err.kind /= "DictionaryReference"
                  /\ result.err.kind = "Shared" => result.err.inner.name /= "dic_number"
        ELSE LET refs == DicRefs(input)
                 decoded == [i \in 1..Len(refs) |-> reference_from(refs[i])]
                 failing == Invalid(decoded)
             IN  /\ failing /= {} =>
                      /\ ~result.ok
                      /\ (\A k \in InvalidGroups(input) : k >= ReferencesGroup) =>
                            result.err = [kind |-> "DictionaryReference",
                                          inner |-> decoded[Min(failing)].err]
                 /\ result.ok =>
                      /\ Len(result.val.references) = Len(refs)
                      /\ \A i \in 1..Len(refs) : result.val.references[i] = decoded[i].val

C7_Witness ==
    /\ CharacterDecoded
    /\ Has(input, "dic_number")
    /\ Len(DicRefs(input)) = 2
    /\ reference_from(DicRefs(input)[1]).ok
    /\ ~reference_from(DicRefs(input)[2]).ok
    /\ ~result.ok
    /\ result.err.kind = "DictionaryReference"


NoEarlierInvalid(node, group) == \A k \in InvalidGroups(node) : k >= group

(* C13: when the reading_meaning child is present its content is          *)
(* mandatory: a missing rmgroup, a failing reading, a failing translation *)
(* or a nanori child without text each make character::from fail, the    *)
(* nanori case with NanoriText positioned at reading_meaning when nothing *)
(* decoded before it fails; a record is returned only with every         *)
(* reading, translation and nanori of the tree in it.                     *)
C13_ReadingMeaningContent ==
    (CharacterDecoded /\ Has(input, "reading_meaning")) =>
        LET reading_meaning == Kid(input, "reading_meaning")
            grouped == Has(reading_meaning, "rmgroup")
            rmgroup == Kid(reading_meaning, "rmgroup")
            nodes == WithTag(rmgroup, "reading")
            readings == [i \in 1..Len(nodes) |-> reading_from(nodes[i])]
            translations == translation_from(rmgroup)
            nanori == WithTag(reading_meaning, "nanori")
            textless == {i \in 1..Len(nanori) : ~IsSome(nanori[i].text)}
            contentFine == grouped /\ Invalid(readings) = {} /\ translations.ok
        IN  /\ ~grouped => ~result.ok
            /\ (grouped /\ Invalid(readings) /= {}) => ~result.ok
            /\ (grouped /\ ~translations.ok) => ~result.ok
            /\ textless /= {} => ~result.ok
            /\ (textless /= {} /\ contentFine /\ NoEarlierInvalid(input, ReadingMeaningGroup)) =>
                 result = Err(NanoriText(reading_meaning.pos))
            /\ result.ok =>
                 /\ contentFine /\ textless = {}
                 /\ result.val.readings = [i \in 1..Len(nodes) |-> readings[i].val]
                 /\ result.val.translations = translations.val
                 /\ result.val.nanori = [i \in 1..Len(nanori) |-> Unwrap(nanori[i].text)]

C13_Witness ==
    /\ CharacterDecoded
    /\ Has(input, "reading_meaning")
    /\ Has(Kid(input, "reading_meaning"), "rmgroup")
    /\ Len(WithTag(Kid(input, "reading_meaning"), "nanori")) = 1
    /\ WithTag(Kid(input, "reading_meaning"), "nanori")[1].text = None
    /\ result = Err(NanoriText(Kid(input, "reading_meaning").pos))


(* C14: the decomposition of a record depends on the decoded literal      *)
(* only: it is the radical list of the first entry of the static table    *)
(* whose kanji is the literal, the empty list when the table has no such  *)
(* entry, and the lookup adds no failure: a node whose groups all decode  *)
(* gives a record whether or not its literal is in the table.             *)
C14_DecompositionLookup ==
    CharacterDecoded =>
        /\ InvalidGroups(input) = {} => result.ok
        /\ result.ok =>
             LET c == result.val.literal
                 entries == 1..Len(DECOMPOSITIONS)
             IN  /\ \A i \in entries :
                       (/\ DECOMPOSITIONS[i].kanji = c
                        /\ \A j \in 1..(i - 1) : DECOMPOSITIONS[j].kanji /= c) =>
                           result.val.decomposition = DECOMPOSITIONS[i].radicals
                 /\ (\A i \in entries : DECOMPOSITIONS[i].kanji /= c) =>
                       result.val.decomposition = <<>>

C14_Witness ==
    /\ CharacterDecoded
    /\ result.ok
    /\ result.val.literal = "K"
    /\ result.val.decomposition = <<"|", "-", "o">>

C14_WitnessAbsent ==
    /\ CharacterDecoded
    /\ result.ok
    /\ result.val.literal = "7"
    /\ result.val.decomposition = <<>>


GradeGroup == 5

FrequencyGroup == 8

JlptGroup == 10

GradeFor(n) ==
    CASE n \in 1..6 -> Kyouiku(n)
      [] n = 8 -> Jouyou
      [] n = 9 -> Jinmeiyou
      [] n = 10 -> JinmeiyouJouyouVariant

GradeTextFine(t) == IsSome(t) /\ IsNumeral(Unwrap(t)) /\ NumeralValue(Unwrap(t)) \in RecognizedGrades

UintTextFine(t, max) == IsSome(t) /\ WellFormedUint(Unwrap(t), max)

(* What C15 says of one optional scalar child of misc: absent, the field *)
(* is None and no error names the child; present with text that is       *)
(* malformed or out of range, the decode fails, with the error variant   *)
(* of the field when nothing decoded before it fails; present with good  *)
(* text, the field of a record is Some of its value.                     *)
ScalarField(misc, invalid, tag, group, kind, fine, value, expected) ==
    IF ~Has(misc, tag)
    THEN /\ result.ok => value = None
         /\ (~result.ok /\ result.err.kind = "Shared") => result.err.inner.name /= tag
         /\ group \notin invalid
    ELSE /\ ~fine =>
               /\ ~result.ok
               /\ (\A k \in invalid : k >= group) => result.err.kind = kind
         /\ result.ok => (fine /\ value = Some(expected))

(* C15: for the optional scalar fields grade, freq and jlpt under misc,   *)
(* an absent child gives None and no error, and a present child with      *)
(* malformed or out-of-range text makes character::from fail, with the    *)
(* Grade error for grade and the Shared error for freq and jlpt; it is    *)
(* never turned into None or a default value.                             *)
C15_OptionalScalars ==
    (CharacterDecoded /\ Has(input, "misc")) =>
        LET misc == Kid(input, "misc")
            invalid == InvalidGroups(input)
            given(tag) == IF Has(misc, tag) THEN Kid(misc, tag).text ELSE None
            number(tag) == NumeralValue(Unwrap(given(tag)))
        IN  /\ ScalarField(misc, invalid, "grade", GradeGroup, "Grade",
                           GradeTextFine(given("grade")),
                           result.val.grade, GradeFor(number("grade")))
            /\ ScalarField(misc, invalid, "freq", FrequencyGroup, "Shared",
                           UintTextFine(given("freq"), U16Max),
                           result.val.frequency, number("freq"))
            /\ ScalarField(misc, invalid, "jlpt", JlptGroup, "Shared",
                           UintTextFine(given("jlpt"), U8Max),
                           result.val.jlpt, number("jlpt"))

C15_Witness ==
    /\ CharacterDecoded
    /\ Has(input, "misc")
    /\ ~Has(Kid(input, "misc"), "freq")
    /\ Has(Kid(input, "misc"), "jlpt")
    /\ Kid(Kid(input, "misc"), "jlpt").text = Some(<<"2", "5", "6">>)
    /\ ~result.ok
    /\ result.err.kind = "Shared"
    /\ result.err.inner.kind = "NotANumber"

====
